---- MODULE Spec2Model ----
(***************************************************************************)
(* Conway's Game of Life program (src/main.rs): the Grid of module grid,   *)
(* the pixel-to-cell mapping px_to_square and the main loop of main, one   *)
(* action per loop iteration (frame) in each of the two GameState modes.   *)
(***************************************************************************)
EXTENDS Integers, Sequences, FiniteSets, TLC

(***************************************************************************)
(* Program constants (main.rs:7-17).                                       *)
(***************************************************************************)
TICKS_PER_SECOND == 10
NANOS_PER_TICK == 1000000000 \div TICKS_PER_SECOND
GRID_SCALE == 40
GRID_WIDTH == 20
GRID_HEIGHT == 15
SCREEN_WIDTH == GRID_WIDTH * GRID_SCALE
SCREEN_HEIGHT == GRID_HEIGHT * GRID_SCALE

(***************************************************************************)
(* Bounds of the model.  The clock stops at MaxTick tick intervals.        *)
(***************************************************************************)
MaxTick == 2

\* The clock advances in steps of half a tick interval, any number of them
\* between two frames.
ClockStep == NANOS_PER_TICK \div 2

\* Pointer positions the environment reports.  A coordinate is an f32 of the
\* source, written here as a whole number of half pixels (-7 is -3.5 px).
MousePositions ==
    { [x |-> -7,   y |-> -3],      \* (-3.5, -1.5): left of and above the window
      [x |-> 159,  y |-> 80],      \* (79.5, 40.0): in cell (1,1), on its top pixel row
      [x |-> 4000, y |-> 3000] }   \* (2000.0, 1500.0): right of and below the window

\* What get_key_pressed() can return in a frame: Some(KEY_SPACE), Some of
\* another key, None.
Keys == {"KEY_SPACE", "KEY_C", "None"}

(***************************************************************************)
(* mod grid: struct Grid { squares: Vec<Vec<bool>>, num_alive: u128 }.     *)
(* squares[y][x], rows 0..GRID_HEIGHT-1 of columns 0..GRID_WIDTH-1.        *)
(* num_alive is an integer here: with GRID_WIDTH * GRID_HEIGHT cells the   *)
(* u128 cannot overflow, and C1 shows that the decrement of set_false is   *)
(* never applied to 0.                                                     *)
(***************************************************************************)
Grid_new ==
    [squares   |-> [y \in 0..(GRID_HEIGHT - 1) |-> [x \in 0..(GRID_WIDTH - 1) |-> FALSE]],
     num_alive |-> 0]

\* Mutant of set_true: the count is incremented without the test of the cell.
set_true_always_counts(g, x, y) ==
    [g EXCEPT !.squares[y][x] = TRUE, !.num_alive = @ + 1]

set_true(g, x, y) ==
    IF ~g.squares[y][x]
    THEN [g EXCEPT !.squares[y][x] = TRUE, !.num_alive = @ + 1]
    ELSE g

\* Mutant of set_false: the count is decremented without the test of the cell.
set_false_always_counts(g, x, y) ==
    [g EXCEPT !.squares[y][x] = FALSE, !.num_alive = @ - 1]

set_false(g, x, y) ==
    IF g.squares[y][x]
    THEN [g EXCEPT !.squares[y][x] = FALSE, !.num_alive = @ - 1]
    ELSE g

is_alive(g, x, y) == g.squares[y][x]

\* `b as u8`
as_u8(b) == IF b THEN 1 ELSE 0

\* Mutant of live_neighbors: a neighbour position outside the grid counts as
\* dead instead of being clamped onto the border.
live_neighbors_dead_border(g, x, y) ==
    LET at(cx, cy) == IF cx \in 0..(GRID_WIDTH - 1) /\ cy \in 0..(GRID_HEIGHT - 1)
                      THEN as_u8(g.squares[cy][cx])
                      ELSE 0
    IN  at(x - 1, y) + at(x + 1, y) + at(x, y - 1) + at(x, y + 1)
      + at(x - 1, y - 1) + at(x + 1, y - 1) + at(x - 1, y + 1) + at(x + 1, y + 1)

\* The four indices live_neighbors computes first (main.rs:189-192).
\* Mutant of left_of: the grid wraps around, the column left of the first is
\* the last.
left_of_wrapping(x) == IF x = 0 THEN GRID_WIDTH - 1 ELSE x - 1

left_of(x) == IF x = 0 THEN x ELSE x - 1
\* Mutant of right_of: the test of the last column is off by one.
right_of_past_last(x) == IF x = GRID_WIDTH THEN x ELSE x + 1

right_of(x) == IF x = GRID_WIDTH - 1 THEN x ELSE x + 1
above_of(y) == IF y = 0 THEN y ELSE y - 1
below_of(y) == IF y = GRID_HEIGHT - 1 THEN y ELSE y + 1

live_neighbors(g, x, y) ==
    LET left  == left_of(x)
        right == right_of(x)
        above == above_of(y)
        below == below_of(y)
    IN  as_u8(g.squares[y][left])
      + as_u8(g.squares[y][right])
      + as_u8(g.squares[above][x])
      + as_u8(g.squares[below][x])
      + as_u8(g.squares[above][left])
      + as_u8(g.squares[above][right])
      + as_u8(g.squares[below][left])
      + as_u8(g.squares[below][right])

\* The bounds checks of the index expression self.squares[y][x], first of
\* the row, then of the column; an index is a usize, so a negative number
\* never passes.
index_ok(x, y) == y \in 0..(GRID_HEIGHT - 1) /\ x \in 0..(GRID_WIDTH - 1)

\* The <<x, y>> of the eight index expressions of live_neighbors
\* (main.rs:195-202).
neighbor_squares(x, y) ==
    { <<left_of(x), y>>, <<right_of(x), y>>, <<x, above_of(y)>>, <<x, below_of(y)>>,
      <<left_of(x), above_of(y)>>, <<right_of(x), above_of(y)>>,
      <<left_of(x), below_of(y)>>, <<right_of(x), below_of(y)>> }

\* A call of a method of Grid as its caller sees it: the grid the call
\* leaves, whether it panicked, and what it returned (<<>> when it panicked,
\* else <<value>>, "()" being the unit value).  In each of the three methods
\* the first thing evaluated is the index expression self.squares[y][x].
call_is_alive(g, x, y) ==
    IF index_ok(x, y)
    THEN [grid |-> g, panicked |-> FALSE, result |-> <<is_alive(g, x, y)>>]
    ELSE [grid |-> g, panicked |-> TRUE, result |-> <<>>]

\* Mutant of call_set_true: num_alive is incremented before the cell is
\* indexed.
call_set_true_counts_first(g, x, y) ==
    IF index_ok(x, y)
    THEN [grid |-> set_true(g, x, y), panicked |-> FALSE, result |-> <<"()">>]
    ELSE [grid |-> [g EXCEPT !.num_alive = @ + 1], panicked |-> TRUE, result |-> <<>>]

call_set_true(g, x, y) ==
    IF index_ok(x, y)
    THEN [grid |-> set_true(g, x, y), panicked |-> FALSE, result |-> <<"()">>]
    ELSE [grid |-> g, panicked |-> TRUE, result |-> <<>>]

call_set_false(g, x, y) ==
    IF index_ok(x, y)
    THEN [grid |-> set_false(g, x, y), panicked |-> FALSE, result |-> <<"()">>]
    ELSE [grid |-> g, panicked |-> TRUE, result |-> <<>>]

(***************************************************************************)
(* px_to_square (main.rs:24-33).                                           *)
(***************************************************************************)
\* `f as i32` for an f32 given in half pixels: truncation toward zero.
as_i32(h) == IF h >= 0 THEN h \div 2 ELSE -((-h) \div 2)

clamp(v, lo, hi) == IF v < lo THEN lo ELSE IF v > hi THEN hi ELSE v

\* Mutant of px_to_square: the upper limits of the clamps are the screen
\* sizes.
px_to_square_clamp_to_screen(v) ==
    LET x0 == clamp(as_i32(v.x), 0, SCREEN_WIDTH)
        y0 == clamp(as_i32(v.y), 0, SCREEN_HEIGHT)
        x1 == x0 - (x0 % GRID_SCALE)
        y1 == y0 - (y0 % GRID_SCALE)
    IN  <<x1 \div GRID_SCALE, y1 \div GRID_SCALE>>

px_to_square(v) ==
    LET x0 == clamp(as_i32(v.x), 0, SCREEN_WIDTH - GRID_SCALE)
        y0 == clamp(as_i32(v.y), 0, SCREEN_HEIGHT - GRID_SCALE)
        x1 == x0 - (x0 % GRID_SCALE)
        y1 == y0 - (y0 % GRID_SCALE)
    IN  <<x1 \div GRID_SCALE, y1 \div GRID_SCALE>>

(***************************************************************************)
(* main, RUNNING branch: the body of the two nested loops (main.rs:75-88)  *)
(* for one cell, reading the current grid and writing into next.           *)
(***************************************************************************)
\* Mutant of next_cell: the test of the live branch is applied to dead cells
\* too, so a dead cell with 2 live neighbours is born.
next_cell_born_on_two(g, next, x, y) ==
    LET neighbor_count == live_neighbors(g, x, y)
    IN  IF neighbor_count = 2 \/ neighbor_count = 3
        THEN set_true(next, x, y)
        ELSE next

\* Mutant of next_cell: a live cell with 2 or more live neighbours lives on
\* (no death by overcrowding).
next_cell_no_overcrowding(g, next, x, y) ==
    LET neighbor_count == live_neighbors(g, x, y)
    IN  IF is_alive(g, x, y)
        THEN IF neighbor_count >= 2
             THEN set_true(next, x, y)
             ELSE next
        ELSE IF neighbor_count = 3
             THEN set_true(next, x, y)
             ELSE next

\* Mutant of next_cell: a dead cell is born with up to 3 live neighbours.
next_cell_born_up_to_three(g, next, x, y) ==
    LET neighbor_count == live_neighbors(g, x, y)
    IN  IF is_alive(g, x, y)
        THEN IF neighbor_count = 2 \/ neighbor_count = 3
             THEN set_true(next, x, y)
             ELSE next
        ELSE IF neighbor_count <= 3
             THEN set_true(next, x, y)
             ELSE next

next_cell(g, next, x, y) ==
    LET neighbor_count == live_neighbors(g, x, y)
    IN  IF is_alive(g, x, y)
        THEN IF neighbor_count = 2 \/ neighbor_count = 3
             THEN set_true(next, x, y)
             ELSE next
        ELSE IF neighbor_count = 3
             THEN set_true(next, x, y)
             ELSE next

\* for x in 0..GRID_WIDTH { for y in 0..GRID_HEIGHT { ... } }: the iterations
\* numbered lo..hi-1 of the loop body, in order, where iteration i has
\* x = i / GRID_HEIGHT and y = i % GRID_HEIGHT (x is the outer loop variable).
\* The range is split in two so that the recursion stays shallow;
\* generation_loop_from runs the second half on the result of the first, and
\* its test on next.num_alive (a u128, never negative) makes TLC evaluate
\* the first half, once, before it starts the second.
RECURSIVE generation_loop(_, _, _, _)
RECURSIVE generation_loop_from(_, _, _, _)
generation_loop(g, next, lo, hi) ==
    IF hi <= lo
    THEN next
    ELSE IF hi = lo + 1
         THEN next_cell(g, next, lo \div GRID_HEIGHT, lo % GRID_HEIGHT)
         ELSE generation_loop_from(g, generation_loop(g, next, lo, (lo + hi) \div 2),
                                   (lo + hi) \div 2, hi)

generation_loop_from(g, next, lo, hi) ==
    IF next.num_alive >= 0 THEN generation_loop(g, next, lo, hi) ELSE next

\* let mut next = Grid::new(); the loops; the value assigned by grid = next.
next_generation(g) == generation_loop(g, Grid_new, 0, GRID_WIDTH * GRID_HEIGHT)

(***************************************************************************)
(* main, CREATING branch (main.rs:48-64).                                  *)
(***************************************************************************)
\* The two pointer edits (main.rs:50-58); left and right are the results of
\* is_mouse_button_down, v is get_mouse_position().  The println! of
\* live_neighbors after set_true changes nothing.
\* Mutant of creating_edit: the right button is handled before the left one.
creating_edit_right_first(g, left, right, v) ==
    LET sq == px_to_square(v)
        g1 == IF right THEN set_false(g, sq[1], sq[2]) ELSE g
    IN  IF left THEN set_true(g1, sq[1], sq[2]) ELSE g1

creating_edit(g, left, right, v) ==
    LET sq == px_to_square(v)
        g1 == IF left THEN set_true(g, sq[1], sq[2]) ELSE g
    IN  IF right THEN set_false(g1, sq[1], sq[2]) ELSE g1

\* The <<x, y>> of the index expressions a CREATING frame evaluates: set_true
\* and live_neighbors when the left button is down, set_false when the right
\* one is.
creating_accesses(left, right, v) ==
    LET sq == px_to_square(v)
    IN  (IF left THEN {sq} \cup neighbor_squares(sq[1], sq[2]) ELSE {})
        \cup (IF right THEN {sq} ELSE {})

\* An index expression of the set fails its bounds check: the thread panics.
out_of_bounds(accesses) == \E a \in accesses : ~index_ok(a[1], a[2])

\* if let Some(KeyboardKey::KEY_SPACE) = rl.get_key_pressed() (main.rs:61-63)
creating_key(k) == IF k = "KEY_SPACE" THEN "RUNNING" ELSE "CREATING"

(***************************************************************************)
(* main, RUNNING branch (main.rs:65-101).                                  *)
(***************************************************************************)
\* let tick = start.elapsed().as_nanos() / NANOS_PER_TICK
tick_of(nanos) == nanos \div NANOS_PER_TICK

\* if tick > current_tick { current_tick = tick; ...; grid = next; }
\* (main.rs:68-93).  generations counts the executions of grid = next.
\* Mutant of running_tick: one generation for every tick that has passed
\* since current_tick (a catch-up of the skipped ticks).
running_tick_catch_up(g, ct, t) ==
    IF t > ct
    THEN [grid          |-> IF t - ct = 1
                            THEN next_generation(g)
                            ELSE next_generation(next_generation(g)),
          current_tick  |-> t,
          generations   |-> IF t - ct = 1 THEN 1 ELSE 2]
    ELSE [grid |-> g, current_tick |-> ct, generations |-> 0]

\* Mutant of running_tick: the tick test is >= instead of >.
running_tick_at_or_after(g, ct, t) ==
    IF t >= ct
    THEN [grid |-> next_generation(g), current_tick |-> t, generations |-> 1]
    ELSE [grid |-> g, current_tick |-> ct, generations |-> 0]

\* Mutant of running_tick: a generation in every frame, whatever the tick.
running_tick_every_frame(g, ct, t) ==
    [grid |-> next_generation(g), current_tick |-> t, generations |-> 1]

running_tick(g, ct, t) ==
    IF t > ct
    THEN [grid |-> next_generation(g), current_tick |-> t, generations |-> 1]
    ELSE [grid |-> g, current_tick |-> ct, generations |-> 0]

\* The <<x, y>> of the index expressions of one generation (main.rs:73-90):
\* live_neighbors, is_alive, set_true for every x in 0..GRID_WIDTH and y in
\* 0..GRID_HEIGHT.
generation_accesses ==
    UNION { {<<x, y>>} \cup neighbor_squares(x, y) :
            x \in 0..(GRID_WIDTH - 1), y \in 0..(GRID_HEIGHT - 1) }

generation_panics == out_of_bounds(generation_accesses)

\* A RUNNING frame that read tick t panics in the generation loop.
running_panics(ct, t) == t > ct /\ generation_panics

\* The two exits of the RUNNING branch (main.rs:95-100); r is what the tick
\* check left, so r.grid is the grid the zero test reads.
\* Mutant of running_exit: the frame also leaves RUNNING when the grid is
\* one that a generation would not change (a still-life detection).
running_exit_when_stable(r, k) ==
    LET s1 == IF r.grid.num_alive = 0 \/ next_generation(r.grid) = r.grid
              THEN "CREATING"
              ELSE "RUNNING"
    IN  IF k = "KEY_SPACE" THEN "CREATING" ELSE s1

\* Mutant of running_exit: the test of num_alive is missing.
running_exit_key_only(r, k) ==
    IF k = "KEY_SPACE" THEN "CREATING" ELSE "RUNNING"

\* Mutant of running_exit: the test of num_alive is made only in a frame that
\* advanced a generation.
running_exit_zero_after_advance(r, k) ==
    LET s1 == IF r.generations = 1 /\ r.grid.num_alive = 0 THEN "CREATING" ELSE "RUNNING"
    IN  IF k = "KEY_SPACE" THEN "CREATING" ELSE s1

\* Mutant of running_exit: the space key toggles the mode the zero test left.
running_exit_key_toggles(r, k) ==
    LET s1 == IF r.grid.num_alive = 0 THEN "CREATING" ELSE "RUNNING"
    IN  IF k = "KEY_SPACE"
        THEN (IF s1 = "CREATING" THEN "RUNNING" ELSE "CREATING")
        ELSE s1

running_exit(r, k) ==
    LET s1 == IF r.grid.num_alive = 0 THEN "CREATING" ELSE "RUNNING"
    IN  IF k = "KEY_SPACE" THEN "CREATING" ELSE s1

\* The is_alive(x, y) of the drawing loops (main.rs:107-109).
draw_accesses == { <<x, y>> : x \in 0..(GRID_WIDTH - 1), y \in 0..(GRID_HEIGHT - 1) }

draw_panics == out_of_bounds(draw_accesses)

\* if let GameState::CREATING = state { d.draw_text("Create Mode", ...) }
create_mode_tag(s) == s = "CREATING"

(***************************************************************************)
(* State.  grid, state, current_tick are the locals of main; elapsed is    *)
(* start.elapsed() in nanoseconds.  The other variables record the last    *)
(* frame: the match arm it took, what it read from the environment (mouse  *)
(* and tick are <<>> when the frame did not read them, else <<value>>; the *)
(* buttons are FALSE when not polled), how many times it executed          *)
(* grid = next, and whether it drew the mode tag.  total_generations       *)
(* counts the executions of grid = next since the start of the program.    *)
(* The model follows the loop while the window is open: closing the        *)
(* window ends the program and changes none of this state.  panicked is    *)
(* TRUE once an index expression has failed its bounds check: the panic    *)
(* ends the program, and the model keeps the locals as the failing frame   *)
(* found them.  arg and result belong to the specifications that apply one *)
(* function of the program to drawn arguments: the argument and what the   *)
(* call returned (<<>> for none, else <<value>>); main leaves them empty.  *)
(***************************************************************************)
VARIABLES grid, state, current_tick, elapsed,
          frame, left_down, right_down, mouse, key, tick,
          generations, total_generations, tag_drawn,
          panicked, arg, result

vars == <<grid, state, current_tick, elapsed,
          frame, left_down, right_down, mouse, key, tick,
          generations, total_generations, tag_drawn,
          panicked, arg, result>>

Init ==
    /\ grid = Grid_new
    /\ state = "CREATING"
    /\ current_tick = 0
    /\ elapsed = 0
    /\ frame = "none"
    /\ left_down = FALSE
    /\ right_down = FALSE
    /\ mouse = <<>>
    /\ key = "None"
    /\ tick = <<>>
    /\ generations = 0
    /\ total_generations = 0
    /\ tag_drawn = FALSE
    /\ panicked = FALSE
    /\ arg = <<>>
    /\ result = <<>>

\* Time passes: start.elapsed() grows by one clock step.
TimePasses ==
    /\ ~panicked
    /\ elapsed + ClockStep <= MaxTick * NANOS_PER_TICK
    /\ elapsed' = elapsed + ClockStep
    /\ UNCHANGED <<grid, state, current_tick, frame, left_down, right_down,
                   mouse, key, tick, generations, total_generations, tag_drawn,
                   panicked, arg, result>>

\* The frame panics: the program ends.
Panic ==
    /\ panicked' = TRUE
    /\ UNCHANGED <<grid, state, current_tick, elapsed, frame, left_down,
                   right_down, mouse, key, tick, generations,
                   total_generations, tag_drawn, arg, result>>

\* One iteration of the while loop in mode CREATING.  The pointer position
\* is read only when a button is down; the clock is not read.
CreatingFrame ==
    /\ state = "CREATING"
    /\ ~panicked
    /\ \E l \in BOOLEAN, r \in BOOLEAN, k \in Keys :
       \E v \in IF l \/ r THEN MousePositions ELSE {<<>>} :
        IF ((l \/ r) /\ out_of_bounds(creating_accesses(l, r, v))) \/ draw_panics
        THEN Panic
        ELSE
          /\ grid' = IF l \/ r THEN creating_edit(grid, l, r, v) ELSE grid
          /\ state' = creating_key(k)
          /\ frame' = "CREATING"
          /\ left_down' = l
          /\ right_down' = r
          /\ mouse' = IF l \/ r THEN <<v>> ELSE <<>>
          /\ key' = k
          /\ tick' = <<>>
          /\ generations' = 0
          /\ tag_drawn' = create_mode_tag(state')
          /\ UNCHANGED <<current_tick, elapsed, total_generations,
                         panicked, arg, result>>

\* The rest of a RUNNING frame once the tick check has run: t is the tick
\* the frame read and r the grid, current_tick and number of generations the
\* tick check left.
RunningRest(t, r) ==
    \E k \in Keys :
       /\ grid' = r.grid
       /\ current_tick' = r.current_tick
       /\ state' = running_exit(r, k)
       /\ frame' = "RUNNING"
       /\ left_down' = FALSE
       /\ right_down' = FALSE
       /\ mouse' = <<>>
       /\ key' = k
       /\ tick' = <<t>>
       /\ generations' = r.generations
       /\ total_generations' = total_generations + r.generations
       /\ tag_drawn' = create_mode_tag(state')
       /\ UNCHANGED <<elapsed, panicked, arg, result>>

\* One iteration of the while loop in mode RUNNING.  The pointer is not
\* read.
RunningFrame ==
    /\ state = "RUNNING"
    /\ ~panicked
    /\ IF running_panics(current_tick, tick_of(elapsed)) \/ draw_panics
       THEN Panic
       ELSE RunningRest(tick_of(elapsed),
                        running_tick(grid, current_tick, tick_of(elapsed)))

Next == TimePasses \/ CreatingFrame \/ RunningFrame

Spec == Init /\ [][Next]_vars

(***************************************************************************)
(* Specifications that apply one function of the program to arguments      *)
(* drawn from a set.  The locals of main other than grid stay as main      *)
(* initialises them.                                                        *)
(***************************************************************************)
MainAtStart ==
    /\ state = "CREATING"
    /\ current_tick = 0
    /\ elapsed = 0
    /\ frame = "none"
    /\ left_down = FALSE
    /\ right_down = FALSE
    /\ mouse = <<>>
    /\ key = "None"
    /\ tick = <<>>
    /\ generations = 0
    /\ tag_drawn = FALSE

MainUnchanged ==
    UNCHANGED <<state, current_tick, elapsed, frame, left_down, right_down,
                mouse, key, tick, generations, tag_drawn>>

\* Arguments of px_to_square, in half pixels: the top-left pixel of every
\* cell of row 0, and positions left of, right of, above and below the
\* window, on its last pixels, and between whole pixels.
PxPositions ==
    { [x |-> h, y |-> 0] : h \in { 2 * k * GRID_SCALE : k \in 0..(GRID_WIDTH - 1) } }
    \cup { [x |-> hx, y |-> hy] :
             hx \in { -4000, -7, -1, 1, 79, 81,
                      2 * (SCREEN_WIDTH - GRID_SCALE) - 1, 2 * SCREEN_WIDTH - 1,
                      2 * SCREEN_WIDTH, 2 * SCREEN_WIDTH + 1, 4000 },
             hy \in { -3000, -3, 0, 79, 80,
                      2 * (SCREEN_HEIGHT - GRID_SCALE) - 1, 2 * SCREEN_HEIGHT - 1,
                      2 * SCREEN_HEIGHT, 2 * SCREEN_HEIGHT + 1, 3000 } }

PxInit ==
    /\ MainAtStart
    /\ grid = Grid_new
    /\ total_generations = 0
    /\ panicked = FALSE
    /\ arg \in { <<v>> : v \in PxPositions }
    /\ result = <<>>

\* The call px_to_square(arg).
PxToSquare ==
    /\ result = <<>>
    /\ result' = <<px_to_square(arg[1])>>
    /\ MainUnchanged
    /\ UNCHANGED <<grid, total_generations, panicked, arg>>

PxNext == PxToSquare

PxSpec == PxInit /\ [][PxNext]_vars

\* How far beyond the last column and the last row the drawn indices go.
MaxBeyond == 1

\* Arguments of the calls: the first and last index of the grid, and the
\* indices from the first one beyond it.
CallColumns == {0, GRID_WIDTH - 1} \cup (GRID_WIDTH..(GRID_WIDTH + MaxBeyond))
CallRows == {0, GRID_HEIGHT - 1} \cup (GRID_HEIGHT..(GRID_HEIGHT + MaxBeyond))
Methods == {"is_alive", "set_true", "set_false"}

call(op, g, x, y) ==
    IF op = "is_alive" THEN call_is_alive(g, x, y)
    ELSE IF op = "set_true" THEN call_set_true(g, x, y)
    ELSE call_set_false(g, x, y)

GridCallInit ==
    /\ MainAtStart
    /\ grid = Grid_new
    /\ total_generations = 0
    /\ panicked = FALSE
    /\ arg = <<>>
    /\ result = <<>>

\* One call of a method on the grid; after a panic there is no further call.
GridCallOutcome(c) ==
    /\ grid' = c.grid
    /\ panicked' = c.panicked
    /\ result' = c.result

GridCall ==
    /\ ~panicked
    /\ \E op \in Methods, x \in CallColumns, y \in CallRows :
          /\ arg' = << [op |-> op, x |-> x, y |-> y] >>
          /\ GridCallOutcome(call(op, grid, x, y))
    /\ MainUnchanged
    /\ UNCHANGED total_generations

GridCallNext == GridCall

GridCallSpec == GridCallInit /\ [][GridCallNext]_vars

\* The generations applied to a seeded grid.
MaxGenerations == 4

\* The glider, as offsets <<dx, dy>> from its origin.
GliderCells == { <<1, 0>>, <<2, 1>>, <<0, 2>>, <<1, 2>>, <<2, 2>> }

\* Origins that put the glider in the interior of the grid: its 3 x 3 box
\* and the cells around the box are at least one cell away from the four
\* borders.
GliderOrigins ==
    { [x |-> ox, y |-> oy] : ox \in 2..(GRID_WIDTH - 5), oy \in 2..(GRID_HEIGHT - 5) }

\* The grid after set_true on the five cells of the glider at origin o.
seed_glider(o) ==
    set_true(set_true(set_true(set_true(set_true(Grid_new,
        o.x + 1, o.y), o.x + 2, o.y + 1), o.x, o.y + 2), o.x + 1, o.y + 2),
        o.x + 2, o.y + 2)

\* arg is the origin of the glider seeded, <<>> when the grid is left as
\* Grid::new() made it.
GenerationInit ==
    /\ MainAtStart
    /\ arg \in {<<>>} \cup { <<o>> : o \in GliderOrigins }
    /\ grid = IF arg = <<>> THEN Grid_new ELSE seed_glider(arg[1])
    /\ total_generations = 0
    /\ panicked = FALSE
    /\ result = <<>>

\* One generation: the loops and grid = next (main.rs:71-92).
Generation ==
    /\ total_generations < MaxGenerations
    /\ grid' = next_generation(grid)
    /\ total_generations' = total_generations + 1
    /\ MainUnchanged
    /\ UNCHANGED <<panicked, arg, result>>

GenerationNext == Generation

GenerationSpec == GenerationInit /\ [][GenerationNext]_vars

(***************************************************************************)
(* Vocabulary of the properties.                                           *)
(***************************************************************************)
Columns == 0..(GRID_WIDTH - 1)
Rows == 0..(GRID_HEIGHT - 1)

\* The number of cells of g whose is_alive is true, by a scan of the grid.
CountAlive(g) == Cardinality({c \in Columns \X Rows : is_alive(g, c[1], c[2])})

\* g has exactly the one live cell (x, y).
OnlyAlive(g, x, y) ==
    \A cx \in Columns, cy \in Rows : is_alive(g, cx, cy) <=> (cx = x /\ cy = y)

\* The liveness (0 or 1) of the cell at offset (dx, dy) from (x, y), the
\* position clamped into the grid.
ClampedAt(g, x, y, dx, dy) ==
    IF g.squares[clamp(y + dy, 0, GRID_HEIGHT - 1)][clamp(x + dx, 0, GRID_WIDTH - 1)]
    THEN 1
    ELSE 0

\* The sum of the clamped liveness over the eight offsets of the Moore
\* neighbourhood; two offsets that clamp to the same cell count twice.
ClampedCount(g, x, y) ==
      ClampedAt(g, x, y, -1, -1) + ClampedAt(g, x, y, 0, -1) + ClampedAt(g, x, y, 1, -1)
    + ClampedAt(g, x, y, -1, 0)                              + ClampedAt(g, x, y, 1, 0)
    + ClampedAt(g, x, y, -1, 1)  + ClampedAt(g, x, y, 0, 1)  + ClampedAt(g, x, y, 1, 1)

\* n is the count c, a number in 0..8.
IsCount(n, c) == n = c /\ n \in 0..8

(***************************************************************************)
(* C1.  In every reachable state the grid's num_alive equals the number    *)
(* of cells whose is_alive is true, and lies in 0..GRID_WIDTH*GRID_HEIGHT. *)
(***************************************************************************)
C1_LiveCountMatchesScan ==
    /\ grid.num_alive = CountAlive(grid)
    /\ grid.num_alive \in 0..(GRID_WIDTH * GRID_HEIGHT)

\* A generation has been advanced, cells have been set and cleared by the
\* pointer, and several cells are alive, one of them born by the rule.
C1_Witness ==
    /\ total_generations >= 1
    /\ frame = "CREATING"
    /\ right_down
    /\ grid.num_alive >= 3
    /\ is_alive(grid, 0, 1)

(***************************************************************************)
(* C2.  For every cell (x, y) of the grid, a second set_true(x, y) right   *)
(* after set_true(x, y) changes neither the cells nor num_alive, and a     *)
(* second set_false(x, y) right after set_false(x, y) changes neither the  *)
(* cells nor num_alive, which stays at or above 0.                         *)
(***************************************************************************)
C2_SetIdempotent ==
    \A x \in Columns, y \in Rows :
        /\ set_true(set_true(grid, x, y), x, y) = set_true(grid, x, y)
        /\ set_false(set_false(grid, x, y), x, y) = set_false(grid, x, y)
        /\ set_false(set_false(grid, x, y), x, y).num_alive >= 0

\* The pointer has just set a cell of a grid that holds live and dead cells,
\* so both the first and the repeated call are exercised on it.
C2_Witness ==
    /\ frame = "CREATING"
    /\ left_down
    /\ ~right_down
    /\ grid.num_alive = 2
    /\ is_alive(grid, px_to_square(mouse[1])[1], px_to_square(mouse[1])[2])

(***************************************************************************)
(* C3.  For every grid and every cell (x, y), live_neighbors(x, y) is the  *)
(* number of the 8 offsets whose clamped position is alive (duplicates     *)
(* counted each time), a number in 0..8; with only cell (1,1) alive the    *)
(* count of corner (0,0) is 1.                                             *)
(***************************************************************************)
C3_ClampedNeighborCount ==
    /\ \A x \in Columns, y \in Rows :
          IsCount(live_neighbors(grid, x, y), ClampedCount(grid, x, y))
    /\ OnlyAlive(grid, 1, 1) => live_neighbors(grid, 0, 0) = 1

\* Only cell (1,1) is alive.
C3_Witness == OnlyAlive(grid, 1, 1) /\ grid.num_alive = 1

(***************************************************************************)
(* C4.  When a RUNNING frame advances a generation, every cell of the new  *)
(* grid is alive iff, in the old grid, the cell was alive with a clamped   *)
(* neighbour count of 2 or 3, or dead with a clamped neighbour count of    *)
(* exactly 3: the new grid is a function of the old grid alone and         *)
(* replaces it as a whole.                                                 *)
(***************************************************************************)
LifeRule(g, x, y) ==
    IF is_alive(g, x, y)
    THEN ClampedCount(g, x, y) \in {2, 3}
    ELSE ClampedCount(g, x, y) = 3

C4_GenerationRule ==
    [][total_generations' # total_generations =>
          \A x \in Columns, y \in Rows : is_alive(grid', x, y) <=> LifeRule(grid, x, y)]_vars

\* A generation has just been advanced in which cell (0,1), which no
\* pointer position of the model reaches, was born and a cell survived.
C4_Witness ==
    /\ frame = "RUNNING"
    /\ generations = 1
    /\ is_alive(grid, 0, 1)
    /\ grid.num_alive >= 2

(***************************************************************************)
(* C5.  The controller starts in CREATING with an all-dead grid.  The mode *)
(* changes from CREATING to RUNNING only in a CREATING frame that reads    *)
(* the space key, and from RUNNING to CREATING only in a RUNNING frame     *)
(* that reads the space key or ends with num_alive = 0.  A RUNNING frame   *)
(* that leaves a non-empty grid as it was and reads no space key stays in  *)
(* RUNNING.                                                                *)
(***************************************************************************)
C5_ModeTransitions ==
    /\ state = "CREATING"
    /\ grid = Grid_new
    /\ [][/\ state' \in {"CREATING", "RUNNING"}
          /\ (state = "CREATING" /\ state' = "RUNNING") =>
                (frame' = "CREATING" /\ key' = "KEY_SPACE")
          /\ (state = "RUNNING" /\ state' = "CREATING") =>
                (frame' = "RUNNING" /\ (key' = "KEY_SPACE" \/ grid'.num_alive = 0))
          /\ (state = "RUNNING" /\ grid' = grid /\ grid.num_alive > 0
                /\ key' # "KEY_SPACE") => state' = "RUNNING"]_vars

\* A generation has just been advanced on a grid whose only live cell is
\* the corner (0,0), which the advance leaves as it is, no space key was
\* read, and the mode is still RUNNING.
C5_Witness ==
    /\ state = "RUNNING"
    /\ frame = "RUNNING"
    /\ generations = 1
    /\ key # "KEY_SPACE"
    /\ OnlyAlive(grid, 0, 0)

(***************************************************************************)
(* C6.  After a RUNNING frame that advanced a generation to a grid with    *)
(* num_alive = 0, the mode is CREATING when the frame draws (the mode tag  *)
(* is drawn), and no step from there advances another generation.          *)
(***************************************************************************)
C6_EmptyGenerationExits ==
    /\ []((frame = "RUNNING" /\ generations = 1 /\ grid.num_alive = 0) =>
             (state = "CREATING" /\ tag_drawn))
    /\ [][(frame = "RUNNING" /\ generations = 1 /\ grid.num_alive = 0) =>
             total_generations' = total_generations]_vars

\* A generation has just been advanced to an empty grid in a frame that read
\* no key, and the mode is CREATING.
C6_Witness ==
    /\ frame = "RUNNING"
    /\ generations = 1
    /\ grid.num_alive = 0
    /\ key = "None"
    /\ state = "CREATING"

(***************************************************************************)
(* C7.  A CREATING frame that reads the space key ends in RUNNING, and the *)
(* RUNNING frame processed on an all-dead grid ends in CREATING, whatever  *)
(* key it reads, with the grid still all-dead and num_alive = 0.           *)
(***************************************************************************)
C7_EmptyStartReturns ==
    [][/\ (CreatingFrame /\ key' = "KEY_SPACE") => state' = "RUNNING"
       /\ (state = "RUNNING" /\ grid = Grid_new /\ RunningFrame) =>
             (state' = "CREATING" /\ grid' = Grid_new /\ grid'.num_alive = 0)]_vars

\* No generation has ever been advanced, so the grid was all-dead when the
\* controller was started; the RUNNING frame that followed read no key, and
\* the mode is CREATING again.
C7_Witness ==
    /\ frame = "RUNNING"
    /\ total_generations = 0
    /\ key = "None"
    /\ state = "CREATING"
    /\ grid = Grid_new

(***************************************************************************)
(* C8.  After a RUNNING frame that read the space key the mode is          *)
(* CREATING, whatever num_alive is and whether or not the frame advanced a *)
(* generation.                                                             *)
(***************************************************************************)
C8_StopKeyExits ==
    (frame = "RUNNING" /\ key = "KEY_SPACE") => (state = "CREATING" /\ tag_drawn)

\* A RUNNING frame advanced a generation to a non-empty grid and read the
\* space key.
C8_Witness ==
    /\ frame = "RUNNING"
    /\ key = "KEY_SPACE"
    /\ generations = 1
    /\ grid.num_alive > 0
    /\ state = "CREATING"

(***************************************************************************)
(* C9.  A frame executes grid = next at most once: a step advances the     *)
(* grid by no generation or by exactly one, a RUNNING frame that advances  *)
(* none leaves the grid as it was, and a frame that advances one sets      *)
(* current_tick to the tick it read, however far that tick is ahead.       *)
(***************************************************************************)
C9_OneGenerationPerFrame ==
    /\ [](generations \in {0, 1})
    /\ [][/\ total_generations' - total_generations \in {0, 1}
          /\ total_generations' # total_generations =>
                (grid' = next_generation(grid) /\ current_tick' = tick'[1])
          /\ (frame' = "RUNNING" /\ total_generations' = total_generations) =>
                (grid' = grid /\ current_tick' = current_tick)]_vars

\* The first generation of the run has just been advanced by a frame that
\* read tick 2 while current_tick was 0: one generation for two ticks.
C9_Witness ==
    /\ frame = "RUNNING"
    /\ generations = 1
    /\ total_generations = 1
    /\ tick = <<2>>
    /\ current_tick = 2
    /\ grid.num_alive > 0

(***************************************************************************)
(* C10.  grid = next is executed only by a RUNNING frame whose tick, the   *)
(* elapsed nanoseconds divided by NANOS_PER_TICK, is strictly greater than *)
(* current_tick, and that frame sets current_tick to its tick;             *)
(* current_tick never decreases; so the generations advanced since the     *)
(* start never outnumber the ticks: total_generations <= current_tick.     *)
(***************************************************************************)
C10_OneGenerationPerTick ==
    /\ [](total_generations <= current_tick)
    /\ [][/\ total_generations' # total_generations =>
                /\ state = "RUNNING"
                /\ frame' = "RUNNING"
                /\ tick' = <<elapsed \div NANOS_PER_TICK>>
                /\ tick'[1] > current_tick
                /\ current_tick' = tick'[1]
          /\ current_tick' >= current_tick]_vars

\* Two generations have been advanced, at ticks 1 and 2, and the controller
\* has been switched back to CREATING since.
C10_Witness ==
    /\ total_generations = 2
    /\ current_tick = 2
    /\ frame = "CREATING"

(***************************************************************************)
(* C11.  In mode CREATING a clear command replaces the grid with a fresh   *)
(* all-dead grid and leaves the mode CREATING.  The command is a key press *)
(* of the frame: a CREATING frame reads one key, and KEY_C stands for any  *)
(* key other than the space key, so whichever key the command is, a frame  *)
(* that reads it with no pointer button down ends with grid = Grid::new()  *)
(* and state CREATING.                                                     *)
(***************************************************************************)
C11_ClearCommand ==
    [][(CreatingFrame /\ key' = "KEY_C" /\ ~left_down' /\ ~right_down') =>
          (grid' = Grid_new /\ state' = "CREATING")]_vars

(***************************************************************************)
(* C12.  For every pointer position v, negative and beyond the screen      *)
(* included, px_to_square(v) is the pair of clamp(v.x, 0, SCREEN_WIDTH -    *)
(* GRID_SCALE) div GRID_SCALE and clamp(v.y, 0, SCREEN_HEIGHT -             *)
(* GRID_SCALE) div GRID_SCALE (here on half pixels: both limits and the    *)
(* divisor doubled); the top-left pixel of cell (k, 0) maps to (k, 0); a    *)
(* position on or beyond the last column maps to column GRID_WIDTH - 1;    *)
(* and the result is a column in 0..GRID_WIDTH-1 and a row in              *)
(* 0..GRID_HEIGHT-1.                                                        *)
(***************************************************************************)
C12_PxToSquare ==
    result # <<>> =>
        LET v == arg[1]
            sq == result[1]
        IN  /\ sq[1] = clamp(v.x, 0, 2 * (SCREEN_WIDTH - GRID_SCALE)) \div (2 * GRID_SCALE)
            /\ sq[2] = clamp(v.y, 0, 2 * (SCREEN_HEIGHT - GRID_SCALE)) \div (2 * GRID_SCALE)
            /\ \A k \in Columns :
                  (v.x = 2 * k * GRID_SCALE /\ v.y = 0) => sq = <<k, 0>>
            /\ v.x >= 2 * (GRID_WIDTH - 1) * GRID_SCALE => sq[1] = GRID_WIDTH - 1
            /\ sq[1] \in Columns
            /\ sq[2] \in Rows

\* px_to_square has been applied to a position one half pixel right of and
\* below the window, and returned the last cell.
C12_Witness ==
    /\ arg = << [x |-> 2 * SCREEN_WIDTH + 1, y |-> 2 * SCREEN_HEIGHT + 1] >>
    /\ result = << <<GRID_WIDTH - 1, GRID_HEIGHT - 1>> >>

(***************************************************************************)
(* C13.  Whatever the pointer positions, buttons, keys and ticks of the    *)
(* frames, every index expression the main loop evaluates (in set_true,    *)
(* set_false, is_alive, live_neighbors, the eight neighbor indices          *)
(* included) has x in 0..GRID_WIDTH-1 and y in 0..GRID_HEIGHT-1: no frame    *)
(* panics.  The accesses of the last frame are those of its edits, of a    *)
(* generation if it advanced one, and of the drawing loops.                *)
(***************************************************************************)
C13_AccessesInBounds ==
    /\ ~panicked
    /\ frame # "none" => \A a \in draw_accesses : index_ok(a[1], a[2])
    /\ (left_down \/ right_down) =>
          \A a \in creating_accesses(left_down, right_down, mouse[1]) :
              a[1] \in Columns /\ a[2] \in Rows
    /\ generations > 0 =>
          \A a \in generation_accesses : a[1] \in Columns /\ a[2] \in Rows

\* A generation has been advanced, and the last frame edited with both
\* buttons down and the pointer right of and below the window.
C13_Witness ==
    /\ ~panicked
    /\ total_generations > 0
    /\ frame = "CREATING"
    /\ left_down
    /\ right_down
    /\ mouse = << [x |-> 4000, y |-> 3000] >>

(***************************************************************************)
(* C14.  The glider {(1,0), (2,1), (0,2), (1,2), (2,2)} moved to an origin *)
(* in the interior of the grid is, after four generations, the same five   *)
(* cells moved by (+1, +1): exactly the cells origin + (1,1) + offset are  *)
(* alive, and num_alive is 5.                                              *)
(***************************************************************************)
C14_GliderTranslates ==
    (arg # <<>> /\ total_generations = 4) =>
        /\ \A x \in Columns, y \in Rows :
              grid.squares[y][x] =
                  (<<x - (arg[1].x + 1), y - (arg[1].y + 1)>> \in GliderCells)
        /\ grid.num_alive = 5

\* Four generations have been applied to the glider seeded at origin
\* (2, 2), and cell (5, 5), the corner of the moved glider, is alive.
C14_Witness ==
    /\ arg = << [x |-> 2, y |-> 2] >>
    /\ total_generations = 4
    /\ grid.squares[5][5]

(***************************************************************************)
(* C15.  A generation applied to an all-dead grid yields an all-dead grid   *)
(* with num_alive 0.                                                        *)
(***************************************************************************)
C15_DeadStaysDead ==
    [][(Generation /\ CountAlive(grid) = 0) =>
          (grid' = Grid_new /\ CountAlive(grid') = 0 /\ grid'.num_alive = 0)]_vars

\* A generation has been applied to the grid Grid::new() made.
C15_Witness ==
    /\ arg = <<>>
    /\ total_generations = 1
    /\ grid = Grid_new

(***************************************************************************)
(* C16.  A call of is_alive, set_true or set_false with x >= GRID_WIDTH or *)
(* y >= GRID_HEIGHT panics on the index instead of returning a value, and  *)
(* leaves the grid, every cell and num_alive, as it was before the call.    *)
(***************************************************************************)
C16_OutOfBoundsPanics ==
    [][(GridCall /\ (arg'[1].x >= GRID_WIDTH \/ arg'[1].y >= GRID_HEIGHT)) =>
          /\ panicked'
          /\ result' = <<>>
          /\ grid'.squares = grid.squares
          /\ grid'.num_alive = grid.num_alive]_vars

\* set_true has been called with x = GRID_WIDTH and a row of the grid, on a
\* grid with live cells, and panicked.
C16_Witness ==
    /\ panicked
    /\ arg # <<>>
    /\ arg[1].op = "set_true"
    /\ arg[1].x = GRID_WIDTH
    /\ arg[1].y = GRID_HEIGHT - 1
    /\ grid.num_alive > 0

\* What a CREATING frame with a button down leaves in the cell sq under the
\* pointer.
C17_PointedCell(sq) ==
    /\ (left_down' /\ right_down') =>
          /\ ~grid'.squares[sq[2]][sq[1]]
          /\ grid'.num_alive =
                grid.num_alive - (IF grid.squares[sq[2]][sq[1]] THEN 1 ELSE 0)
    /\ (left_down' /\ ~right_down') => grid'.squares[sq[2]][sq[1]]
    /\ (~left_down' /\ right_down') => ~grid'.squares[sq[2]][sq[1]]

(***************************************************************************)
(* C17.  A CREATING frame with both pointer buttons down applies set_true  *)
(* and then set_false to the cell under the pointer: the cell is dead      *)
(* after the frame, and num_alive is one less than before the frame if the *)
(* cell was alive, else the same.  With only the left button down the cell *)
(* is alive after the frame; with only the right button down it is dead.   *)
(***************************************************************************)
C17_BothButtons ==
    [][(CreatingFrame /\ (left_down' \/ right_down')) =>
          C17_PointedCell(px_to_square(mouse'[1]))]_vars

\* The last frame had both buttons down on cell (1, 1), which is dead,
\* while the cells (0, 0) and (19, 14) set by earlier frames are alive.
C17_Witness ==
    /\ frame = "CREATING"
    /\ left_down
    /\ right_down
    /\ mouse = << [x |-> 159, y |-> 80] >>
    /\ ~grid.squares[1][1]
    /\ grid.squares[0][0]
    /\ grid.squares[14][19]
    /\ grid.num_alive = 2

(***************************************************************************)
(* C18.  Frame conditions.  A CREATING frame advances no generation,       *)
(* leaves current_tick as it was, and changes no cell other than the one   *)
(* under the pointer (and none when no button is down).  A RUNNING frame   *)
(* reads no pointer button and no pointer position and changes the grid     *)
(* only by advancing a generation; when its tick is not greater than       *)
(* current_tick it advances none and leaves the grid and current_tick as    *)
(* they were.                                                              *)
(***************************************************************************)
C18_FrameConditions ==
    [][/\ CreatingFrame =>
            /\ generations' = 0
            /\ total_generations' = total_generations
            /\ current_tick' = current_tick
            /\ \A x \in Columns, y \in Rows :
                  grid'.squares[y][x] # grid.squares[y][x] =>
                      /\ left_down' \/ right_down'
                      /\ <<x, y>> = px_to_square(mouse'[1])
       /\ RunningFrame =>
            /\ ~left_down'
            /\ ~right_down'
            /\ mouse' = <<>>
            /\ generations' = 0 => grid' = grid
            /\ tick'[1] <= current_tick =>
                  /\ generations' = 0
                  /\ grid' = grid
                  /\ current_tick' = current_tick]_vars

\* The last frame was a RUNNING frame within tick 1, after the frame that
\* advanced the generation of tick 1: it left the live cells and
\* current_tick alone.
C18_Witness ==
    /\ frame = "RUNNING"
    /\ tick = <<1>>
    /\ current_tick = 1
    /\ generations = 0
    /\ total_generations = 1
    /\ grid.num_alive > 0

\* The corner cells and the border cells of the grid; what making cell
\* (x, y) alive adds to its own live_neighbors count; a generation leaves a
\* grid whose only live cell is a corner as it is.
Corners == { <<x, y>> \in Columns \X Rows :
               x \in {0, GRID_WIDTH - 1} /\ y \in {0, GRID_HEIGHT - 1} }

Borders == { <<x, y>> \in Columns \X Rows :
               x \in {0, GRID_WIDTH - 1} \/ y \in {0, GRID_HEIGHT - 1} }

SelfCount(g, x, y) ==
    live_neighbors(set_true(g, x, y), x, y) - live_neighbors(set_false(g, x, y), x, y)

LoneCornersAreStill ==
    \A c \in Corners :
        /\ next_generation(set_true(Grid_new, c[1], c[2])) = set_true(Grid_new, c[1], c[2])
        /\ next_generation(set_true(Grid_new, c[1], c[2])).num_alive = 1

(***************************************************************************)
(* C19.  Clamping maps three of the eight neighbour indices of a corner    *)
(* cell, and one of those of any other border cell, back to the cell: in   *)
(* every grid, making a corner cell alive adds 3 to its own live_neighbors *)
(* count, and making another border cell alive adds 1.  So a grid whose    *)
(* only live cell is a corner cell is left as it is by a generation, with  *)
(* num_alive 1, and a RUNNING frame that starts with such a grid leaves    *)
(* the grid as it is and stays RUNNING unless it reads the space key.      *)
(***************************************************************************)
C19_LoneCornerPersists ==
    /\ [](/\ \A c \in Borders :
                SelfCount(grid, c[1], c[2]) = IF c \in Corners THEN 3 ELSE 1
          /\ LoneCornersAreStill)
    /\ [][(RunningFrame /\ \E c \in Corners : OnlyAlive(grid, c[1], c[2])) =>
              /\ grid' = grid
              /\ grid'.num_alive = 1
              /\ key' # "KEY_SPACE" => state' = "RUNNING"]_vars

\* The only live cell is the corner (19, 14); two generations have been
\* advanced, the last one by the last frame, which read no key, and the
\* mode is RUNNING.
C19_Witness ==
    /\ OnlyAlive(grid, GRID_WIDTH - 1, GRID_HEIGHT - 1)
    /\ state = "RUNNING"
    /\ frame = "RUNNING"
    /\ key = "None"
    /\ generations = 1
    /\ total_generations = 2

====
